---- MODULE Spec2Model ----
(***************************************************************************)
(* Vigenere cryptanalysis scripts: IOC.py, kasisiki.py,                    *)
(* kasiski_spacings.py, guess_key_letters.py and vigenere_trykey.py.       *)
(*                                                                         *)
(* Every script is a sequential batch run.  A run is modelled by           *)
(*   script : which script (or which function of it) is run,               *)
(*   pc     : the position of the run,                                     *)
(*   inp    : the run's inputs (file content, user input, arguments),      *)
(*   out    : what the run produced (return values, locals, the error).    *)
(* A string is a sequence of Unicode code points; float scores are exact   *)
(* rationals (IOC.py) or fixed-point integers (guess_key_letters.py).      *)
(***************************************************************************)
EXTENDS Integers, Sequences, FiniteSets, TLC

VARIABLES script, pc, inp, out

vars == <<script, pc, inp, out>>

(***************************************************************************)
(* Bounds of the model.                                                    *)
(***************************************************************************)
MaxRawLen == 3

(***************************************************************************)
(* Python built-ins on strings, restricted to the code points the model    *)
(* draws: A-Z (65..90), a-z (97..122), space 32, newline 10, tab 9,        *)
(* digit '1' 49, and the non-Latin letters e-acute 233 / E-acute 201.      *)
(***************************************************************************)
ord_A == 65

IsAsciiUpper(ch) == ch >= 65 /\ ch <= 90

IsAsciiLower(ch) == ch >= 97 /\ ch <= 122

\* str.isalpha() holds of a character iff it is a Unicode letter
ch_isalpha(ch) == IsAsciiUpper(ch) \/ IsAsciiLower(ch) \/ ch \in {201, 233}

\* whitespace as str.strip() understands it
ch_isspace(ch) == ch \in {9, 10, 11, 12, 13, 32}

ch_upper(ch) ==
    IF IsAsciiLower(ch) THEN ch - 32
    ELSE IF ch = 233 THEN 201
    ELSE ch

\* str.isalpha(): non-empty and every character a letter
str_isalpha(s) == Len(s) > 0 /\ \A i \in 1..Len(s) : ch_isalpha(s[i])

str_upper(s) == [i \in 1..Len(s) |-> ch_upper(s[i])]

RECURSIVE str_lstrip(_)
str_lstrip(s) ==
    IF s = <<>> \/ ~ch_isspace(Head(s)) THEN s ELSE str_lstrip(Tail(s))

RECURSIVE str_rstrip(_)
str_rstrip(s) ==
    IF s = <<>> \/ ~ch_isspace(s[Len(s)]) THEN s
    ELSE str_rstrip(SubSeq(s, 1, Len(s) - 1))

str_strip(s) == str_rstrip(str_lstrip(s))

\* s.replace(chr(ch), "")
str_remove(s, ch) == SelectSeq(s, LAMBDA c : c # ch)

(***************************************************************************)
(* load_ciphertext: the file branch (identical in IOC.py, kasisiki.py,     *)
(* kasiski_spacings.py and guess_key_letters.py) and the input() branch of *)
(* IOC.py.  The result is [err, val]; err = "" when nothing is raised.     *)
(***************************************************************************)
load_content(text) == str_remove(str_remove(str_strip(text), 32), 10)

load_ciphertext_file(text) ==
    LET content == load_content(text)
    IN  IF ~str_isalpha(content)
        THEN [err |-> "ValueError", val |-> <<>>]
        ELSE [err |-> "", val |-> str_upper(content)]

load_ciphertext_input(text) ==
    LET ciphertext == str_upper(str_strip(text))
    IN  IF ~str_isalpha(ciphertext)
        THEN [err |-> "ValueError", val |-> <<>>]
        ELSE [err |-> "", val |-> ciphertext]

\* The characters raw text is drawn from: e-acute, 'A', 'b', space, newline,
\* tab, '1'.
RawChars == <<233, 65, 98, 32, 10, 9, 49>>

SeqsOver(chars, lo, hi) ==
    UNION { { [i \in 1..n |-> chars[f[i]]] : f \in [1..n -> 1..Len(chars)] }
            : n \in lo..hi }

RawTexts == SeqsOver(RawChars, 1, MaxRawLen) \cup {<<>>}

NoOut == [err |-> "", val |-> <<>>]

InitLoad ==
    /\ script = "load_ciphertext"
    /\ pc = "start"
    /\ inp \in [raw : RawTexts]
    /\ out = NoOut

\* cipher.txt exists and holds inp.raw
LoadFile ==
    /\ script = "load_ciphertext"
    /\ pc = "start"
    /\ pc' = "file_done"
    /\ out' = load_ciphertext_file(inp.raw)
    /\ UNCHANGED <<script, inp>>

\* cipher.txt does not exist; the user types inp.raw
LoadInput ==
    /\ script = "load_ciphertext"
    /\ pc = "start"
    /\ pc' = "input_done"
    /\ out' = load_ciphertext_input(inp.raw)
    /\ UNCHANGED <<script, inp>>

NextLoad == LoadFile \/ LoadInput

SpecLoad == InitLoad /\ [][NextLoad]_vars

(***************************************************************************)
(* C3.  The Text Normalizer removes all whitespace from the raw text, then *)
(* fails if and only if some remaining character is not one of the 26      *)
(* Latin letters (digits, punctuation and non-Latin letters are rejected); *)
(* when it succeeds the result is the raw text's letters, in order, in     *)
(* upper case.  Stated here for raw texts that hold at least one           *)
(* non-whitespace character.                                               *)
(***************************************************************************)
IsLatinLetter(ch) == IsAsciiUpper(ch) \/ IsAsciiLower(ch)

WithoutWhitespace(s) == SelectSeq(s, LAMBDA c : ~ch_isspace(c))

C3_NormalizerContract ==
    (script = "load_ciphertext" /\ pc # "start"
        /\ WithoutWhitespace(inp.raw) # <<>>) =>
        LET rest == WithoutWhitespace(inp.raw)
        IN  /\ (out.err # "") <=> (\E i \in 1..Len(rest) : ~IsLatinLetter(rest[i]))
            /\ (out.err = "") =>
                   out.val = [i \in 1..Len(rest) |-> IF IsAsciiLower(rest[i])
                                                     THEN rest[i] - 32 ELSE rest[i]]

(***************************************************************************)
(* vigenere_trykey.py                                                      *)
(***************************************************************************)
MaxCtLen == 3

MaxKeyTextLen == 2

RECURSIVE to_numbers_loop(_, _)
to_numbers_loop(text, nums) ==
    IF text = <<>> THEN [err |-> "", val |-> nums]
    ELSE IF IsAsciiUpper(Head(text))
         THEN to_numbers_loop(Tail(text), Append(nums, Head(text) - ord_A))
         ELSE [err |-> "ValueError", val |-> <<>>]

\* faulty variant: text = text.upper() is left out
text_to_numbers_no_upper(text) == to_numbers_loop(text, <<>>)

text_to_numbers(text) == to_numbers_loop(str_upper(text), <<>>)

numbers_to_text(nums) == [i \in 1..Len(nums) |-> nums[i] + ord_A]

\* faulty variant: the key letter is added instead of subtracted
decrypt_letter_added(c, key_nums, i) ==
    (c + key_nums[(i % Len(key_nums)) + 1]) % 26

\* p = (c - k) % 26, k = key_nums[i % key_len]  (i is 0-based in the code)
decrypt_letter(c, key_nums, i) == (c - key_nums[(i % Len(key_nums)) + 1]) % 26

decrypt_vigenere(ciphertext, key) ==
    IF ~str_isalpha(key) THEN [err |-> "ValueError", val |-> <<>>]
    ELSE LET ct == text_to_numbers(ciphertext)
             kn == text_to_numbers(key)
         IN  IF ct.err # "" THEN ct
             ELSE IF kn.err # "" THEN kn
             ELSE [err |-> "",
                   val |-> numbers_to_text(
                       [i \in 1..Len(ct.val) |->
                           decrypt_letter(ct.val[i], kn.val, i - 1)])]

\* The companion encryption of the round-trip property, which the scripts do
\* not contain: c[i] = (p[i] + k[i mod len(k)]) mod 26, written in upper case.
letter_index(ch) == IF IsAsciiLower(ch) THEN ch - 97 ELSE ch - 65

encrypt_vigenere(plaintext, key) ==
    [i \in 1..Len(plaintext) |->
        ((letter_index(plaintext[i])
            + letter_index(key[((i - 1) % Len(key)) + 1])) % 26) + 65]

\* 'A', 'Z', 'b', 'n', '1', e-acute
DecChars == <<65, 90, 98, 110, 49, 233>>

\* 'A', 'Z', 'b', 'n'
DecLetters == <<65, 90, 98, 110>>

LXFOPVEFRNHR == <<76, 88, 70, 79, 80, 86, 69, 70, 82, 78, 72, 82>>

LEMON == <<76, 69, 77, 79, 78>>

ATTACKATDAWN == <<65, 84, 84, 65, 67, 75, 65, 84, 68, 65, 87, 78>>

InitDecrypt ==
    /\ script = "vigenere_trykey"
    /\ out = NoOut
    /\ \/ /\ pc = "start"
          /\ inp \in [ciphertext : SeqsOver(DecChars, 0, MaxCtLen),
                      key : SeqsOver(DecChars, 0, MaxKeyTextLen),
                      plaintext : {<<>>}, harness : {FALSE}]
       \/ /\ pc = "start"
          /\ inp = [ciphertext |-> LXFOPVEFRNHR, key |-> LEMON,
                    plaintext |-> <<>>, harness |-> FALSE]
       \/ /\ pc = "plain"
          /\ inp \in [ciphertext : {<<>>},
                      key : SeqsOver(DecLetters, 1, MaxKeyTextLen + 1),
                      plaintext : SeqsOver(DecLetters, 0, MaxCtLen),
                      harness : {TRUE}]

\* the test harness encrypts its plaintext
Encrypt ==
    /\ script = "vigenere_trykey"
    /\ pc = "plain"
    /\ pc' = "start"
    /\ inp' = [inp EXCEPT !.ciphertext = encrypt_vigenere(inp.plaintext, inp.key)]
    /\ UNCHANGED <<script, out>>

\* main: plaintext = decrypt_vigenere(ciphertext, key), ValueError caught
Decrypt ==
    /\ script = "vigenere_trykey"
    /\ pc = "start"
    /\ pc' = "done"
    /\ out' = decrypt_vigenere(inp.ciphertext, inp.key)
    /\ UNCHANGED <<script, inp>>

NextDecrypt == Encrypt \/ Decrypt

SpecDecrypt == InitDecrypt /\ [][NextDecrypt]_vars

(***************************************************************************)
(* C1.  For every alphabetic ciphertext (any case) and every non-empty     *)
(* alphabetic key, decrypt returns exactly len(c) letters, the i-th being  *)
(* the letter of index (c[i] - k[i mod len(k)]) mod 26; LXFOPVEFRNHR       *)
(* under LEMON gives ATTACKATDAWN.                                         *)
(***************************************************************************)
AllLatin(s) == \A i \in 1..Len(s) : IsLatinLetter(s[i])

C1_DecryptFormula ==
    (script = "vigenere_trykey" /\ pc = "done"
        /\ AllLatin(inp.ciphertext) /\ inp.key # <<>> /\ AllLatin(inp.key)) =>
        /\ out.err = ""
        /\ Len(out.val) = Len(inp.ciphertext)
        /\ \A i \in 0..(Len(inp.ciphertext) - 1) :
               /\ IsAsciiUpper(out.val[i + 1])
               /\ \E d \in 0..25 :
                      /\ out.val[i + 1] = 65 + d
                      /\ (d + letter_index(inp.key[(i % Len(inp.key)) + 1])
                            - letter_index(inp.ciphertext[i + 1])) % 26 = 0
        /\ (inp.ciphertext = LXFOPVEFRNHR /\ inp.key = LEMON)
               => out.val = ATTACKATDAWN

C1_Witness ==
    /\ script = "vigenere_trykey" /\ pc = "done"
    /\ inp.ciphertext = LXFOPVEFRNHR /\ inp.key = LEMON
    /\ out.val = ATTACKATDAWN

(***************************************************************************)
(* C2.  Round trip: decrypt(encrypt(p, k), k) is p folded to upper case,   *)
(* for every alphabetic plaintext p and non-empty alphabetic key k.        *)
(***************************************************************************)
C2_RoundTrip ==
    (script = "vigenere_trykey" /\ pc = "done" /\ inp.harness) =>
        /\ out.err = ""
        /\ out.val = [i \in 1..Len(inp.plaintext) |->
                         IF IsAsciiLower(inp.plaintext[i])
                         THEN inp.plaintext[i] - 32 ELSE inp.plaintext[i]]

\* a mixed-case plaintext under a key longer than one letter, with a wrap
C2_Witness ==
    /\ script = "vigenere_trykey" /\ pc = "done" /\ inp.harness
    /\ inp.plaintext = <<98, 90, 65>> /\ inp.key = <<110, 90>>
    /\ inp.ciphertext = <<79, 89, 78>>
    /\ out.val = <<66, 90, 65>>

(***************************************************************************)
(* IOC.py.  A float is the exact rational [num, den], den > 0.             *)
(***************************************************************************)
MaxTextLen == 6

MaxRange == 3

rat_zero == [num |-> 0, den |-> 1]

rat_add(a, b) == [num |-> a.num * b.den + b.num * a.den, den |-> a.den * b.den]

rat_less(a, b) == a.num * b.den < b.num * a.den

rat_eq(a, b) == a.num * b.den = b.num * a.den

RECURSIVE sum_over(_, _)
sum_over(f, S) ==
    IF S = {} THEN 0
    ELSE LET x == CHOOSE y \in S : TRUE
         IN  f[x] + sum_over(f, S \ {x})

\* collections.Counter(text)
Counter(text) ==
    [ch \in {text[i] : i \in 1..Len(text)} |->
        Cardinality({i \in 1..Len(text) : text[i] = ch})]

\* faulty variant: n * n in place of n * (n - 1)
index_of_coincidence_squares(text) ==
    LET N == Len(text)
    IN  IF N <= 1 THEN rat_zero
        ELSE LET counter == Counter(text)
             IN  [num |-> sum_over([ch \in DOMAIN counter |->
                              counter[ch] * counter[ch]], DOMAIN counter),
                  den |-> N * (N - 1)]

index_of_coincidence(text) ==
    LET N == Len(text)
    IN  IF N <= 1 THEN rat_zero
        ELSE LET counter == Counter(text)
                 numerator == sum_over([ch \in DOMAIN counter |->
                                  counter[ch] * (counter[ch] - 1)], DOMAIN counter)
                 denominator == N * (N - 1)
             IN  [num |-> numerator, den |-> denominator]

\* groups[i % key_len] += ch, i 0-based; an empty groups list when key_len <= 0
RECURSIVE IOC_split_loop(_, _, _, _)
IOC_split_loop(groups, ciphertext, i, key_len) ==
    IF i >= Len(ciphertext) THEN [err |-> "", val |-> groups]
    ELSE IF key_len = 0 THEN [err |-> "ZeroDivisionError", val |-> <<>>]
    ELSE IF key_len < 0 THEN [err |-> "IndexError", val |-> <<>>]
    ELSE IOC_split_loop(
             [groups EXCEPT ![(i % key_len) + 1] = Append(@, ciphertext[i + 1])],
             ciphertext, i + 1, key_len)

IOC_split_by_key_length(ciphertext, key_len) ==
    IOC_split_loop([j \in 1..key_len |-> <<>>], ciphertext, 0, key_len)

RECURSIVE rat_sum(_)
rat_sum(ics) ==
    IF ics = <<>> THEN rat_zero
    ELSE rat_add(rat_sum(SubSeq(ics, 1, Len(ics) - 1)), ics[Len(ics)])

average_ic(groups) ==
    LET group_ics == [i \in 1..Len(SelectSeq(groups, LAMBDA g : Len(g) > 1)) |->
                         index_of_coincidence(
                             SelectSeq(groups, LAMBDA g : Len(g) > 1)[i])]
    IN  IF group_ics = <<>> THEN rat_zero
        ELSE [num |-> rat_sum(group_ics).num,
              den |-> rat_sum(group_ics).den * Len(group_ics)]

\* results: the dict key_len -> avg_ic as its items in insertion order
RECURSIVE analyze_loop(_, _, _, _)
analyze_loop(results, ciphertext, k, max_len) ==
    IF k > max_len THEN [err |-> "", val |-> results]
    ELSE LET groups == IOC_split_by_key_length(ciphertext, k)
         IN  IF groups.err # "" THEN groups
             ELSE analyze_loop(
                      Append(results, [k |-> k, score |-> average_ic(groups.val)]),
                      ciphertext, k + 1, max_len)

analyze_key_lengths(ciphertext, min_len, max_len) ==
    analyze_loop(<<>>, ciphertext, min_len, max_len)

\* faulty variant: x goes before the items of equal score (ties reversed)
RECURSIVE insert_by_ic_unstable(_, _)
insert_by_ic_unstable(sorted, x) ==
    IF sorted = <<>> THEN <<x>>
    ELSE IF ~rat_less(x.score, sorted[Len(sorted)].score)
         THEN Append(insert_by_ic_unstable(SubSeq(sorted, 1, Len(sorted) - 1), x),
                     sorted[Len(sorted)])
         ELSE Append(sorted, x)

\* sorted(items, key=...) is stable: x goes after every item that does not
\* sort strictly after it
RECURSIVE insert_by_ic(_, _)
insert_by_ic(sorted, x) ==
    IF sorted = <<>> THEN <<x>>
    ELSE IF rat_less(sorted[Len(sorted)].score, x.score)
         THEN Append(insert_by_ic(SubSeq(sorted, 1, Len(sorted) - 1), x),
                     sorted[Len(sorted)])
         ELSE Append(sorted, x)

RECURSIVE IOC_sorted_candidates(_)
IOC_sorted_candidates(items) ==
    IF items = <<>> THEN <<>>
    ELSE insert_by_ic(IOC_sorted_candidates(SubSeq(items, 1, Len(items) - 1)),
                      items[Len(items)])

\* faulty variant: min_len < 1 is not checked
IOC_range_invalid_max_only(min_len, max_len) == max_len < min_len

IOC_range_invalid(min_len, max_len) == min_len < 1 \/ max_len < min_len

NoIOCOut == [err |-> "", ciphertext |-> <<>>, analyzed |-> FALSE,
             overall_ic |-> rat_zero, results |-> <<>>,
             sorted_candidates |-> <<>>]

\* load_ciphertext of IOC.py, kasisiki.py and kasiski_spacings.py
load_ciphertext(has_file, text) ==
    IF has_file THEN load_ciphertext_file(text) ELSE load_ciphertext_input(text)

IOC_analysis(ciphertext, parse_ok, min_len, max_len) ==
    LET overall == [NoIOCOut EXCEPT
                       !.ciphertext = ciphertext,
                       !.overall_ic = index_of_coincidence(ciphertext)]
    IN  IF ~parse_ok THEN [overall EXCEPT !.err = "Invalid input."]
        ELSE IF IOC_range_invalid(min_len, max_len)
             THEN [overall EXCEPT !.err = "Invalid range."]
        ELSE LET results == analyze_key_lengths(ciphertext, min_len, max_len)
             IN  IF results.err # ""
                 THEN [overall EXCEPT !.err = results.err, !.analyzed = TRUE]
                 ELSE [overall EXCEPT
                          !.analyzed = TRUE,
                          !.results = results.val,
                          !.sorted_candidates = IOC_sorted_candidates(results.val)]

IOC_main(has_file, raw, parse_ok, min_len, max_len) ==
    LET loaded == load_ciphertext(has_file, raw)
    IN  IF loaded.err # "" THEN [NoIOCOut EXCEPT !.err = loaded.err]
        ELSE IOC_analysis(loaded.val, parse_ok, min_len, max_len)

\* 'A', 'b'
TwoLetters == <<65, 98>>

\* 'A', 'B', 'C'
ThreeLetters == <<65, 66, 67>>

InitIC ==
    /\ script = "index_of_coincidence"
    /\ pc = "start"
    /\ inp \in [text : SeqsOver(ThreeLetters, 0, MaxTextLen - 1)]
    /\ out = [ic |-> rat_zero]

ApplyIC ==
    /\ script = "index_of_coincidence"
    /\ pc = "start"
    /\ pc' = "done"
    /\ out' = [ic |-> index_of_coincidence(inp.text)]
    /\ UNCHANGED <<script, inp>>

\* a text of cipher.txt or typed by the user that is not letters only: "1"
BadRaw == <<49>>

\* parse_ok: int() accepted both typed key lengths
InitIOC ==
    /\ script = "IOC_main"
    /\ pc = "start"
    /\ \/ inp \in [has_file : BOOLEAN,
                   raw : SeqsOver(TwoLetters, 1, MaxTextLen),
                   parse_ok : {TRUE},
                   min_len : (-1)..MaxRange,
                   max_len : (-1)..(MaxRange + 1)]
       \/ inp \in [has_file : BOOLEAN,
                   raw : SeqsOver(TwoLetters, 1, 1) \cup {BadRaw},
                   parse_ok : {FALSE}, min_len : {0}, max_len : {0}]
    /\ out = NoIOCOut

RunIOC ==
    /\ script = "IOC_main"
    /\ pc = "start"
    /\ pc' = "done"
    /\ out' = IOC_main(inp.has_file, inp.raw, inp.parse_ok,
                       inp.min_len, inp.max_len)
    /\ UNCHANGED <<script, inp>>

(***************************************************************************)
(* kasisiki.py and kasiski_spacings.py.  A dict is the sequence of its     *)
(* items in insertion order.                                               *)
(***************************************************************************)
MaxSpacings == 3

MIN_LEN == 3

MAX_LEN == 10

MIN_KEY_LEN == 2

MAX_KEY_LEN == 20

int_min(a, b) == IF a < b THEN a ELSE b

\* text[i:j] for 0 <= i <= j
py_slice(text, i, j) == SubSeq(text, i + 1, int_min(j, Len(text)))

\* occurrences[sub].append(i)
occurrences_append(occurrences, sub, i) ==
    IF \E x \in 1..Len(occurrences) : occurrences[x].sub = sub
    THEN LET x == CHOOSE y \in 1..Len(occurrences) : occurrences[y].sub = sub
         IN  [occurrences EXCEPT ![x].pos = Append(@, i)]
    ELSE Append(occurrences, [sub |-> sub, pos |-> <<i>>])

\* faulty variant: range(0, n - length), the last start offset is missed
find_stop_short(n, length) == n - length

\* for i in range(0, n - length + 1)
find_stop(n, length) == n - length + 1

RECURSIVE find_inner_loop(_, _, _, _)
find_inner_loop(occurrences, ciphertext, length, i) ==
    IF i >= find_stop(Len(ciphertext), length) THEN occurrences
    ELSE find_inner_loop(
             occurrences_append(occurrences,
                                py_slice(ciphertext, i, i + length), i),
             ciphertext, length, i + 1)

\* for length in range(min_len, min(max_len, n) + 1)
RECURSIVE find_outer_loop(_, _, _, _)
find_outer_loop(occurrences, ciphertext, length, max_len) ==
    IF length >= int_min(max_len, Len(ciphertext)) + 1 THEN occurrences
    ELSE find_outer_loop(find_inner_loop(occurrences, ciphertext, length, 0),
                         ciphertext, length + 1, max_len)

is_repeated(item) == Len(item.pos) >= 2

find_repeated_substrings(ciphertext, min_len, max_len) ==
    SelectSeq(find_outer_loop(<<>>, ciphertext, min_len, max_len), is_repeated)

RECURSIVE insert_int(_, _)
insert_int(sorted, x) ==
    IF sorted = <<>> THEN <<x>>
    ELSE IF x < sorted[Len(sorted)]
         THEN Append(insert_int(SubSeq(sorted, 1, Len(sorted) - 1), x),
                     sorted[Len(sorted)])
         ELSE Append(sorted, x)

RECURSIVE sorted_ints(_)
sorted_ints(xs) ==
    IF xs = <<>> THEN <<>>
    ELSE insert_int(sorted_ints(SubSeq(xs, 1, Len(xs) - 1)), xs[Len(xs)])

compute_spacings(positions) ==
    LET sorted == sorted_ints(positions)
    IN  [i \in 1..(Len(sorted) - 1) |-> sorted[i + 1] - sorted[i]]

RECURSIVE collect_all_spacings(_)
collect_all_spacings(repeated) ==
    IF repeated = <<>> THEN <<>>
    ELSE collect_all_spacings(SubSeq(repeated, 1, Len(repeated) - 1))
             \o compute_spacings(repeated[Len(repeated)].pos)

\* faulty variant: spacings <= 0 are not skipped
count_spacing_no_skip(counts, d) ==
    [x \in 1..Len(counts) |->
        IF d % counts[x].f = 0
        THEN [f |-> counts[x].f, count |-> counts[x].count + 1]
        ELSE counts[x]]

\* one spacing d: skipped when d <= 0, else counts[f] += 1 where d % f == 0
count_spacing(counts, d) ==
    IF d <= 0 THEN counts
    ELSE [x \in 1..Len(counts) |->
             IF d % counts[x].f = 0
             THEN [f |-> counts[x].f, count |-> counts[x].count + 1]
             ELSE counts[x]]

RECURSIVE factor_loop(_, _)
factor_loop(counts, spacings) ==
    IF spacings = <<>> THEN counts
    ELSE factor_loop(count_spacing(counts, Head(spacings)), Tail(spacings))

\* min_key_len >= 1 here: a candidate 0 makes d % f raise ZeroDivisionError
factor_score(spacings, min_key_len, max_key_len) ==
    factor_loop([x \in 1..(max_key_len - min_key_len + 1) |->
                    [f |-> min_key_len + x - 1, count |-> 0]],
                spacings)

\* key = (-count, f)
kasiski_key_less(a, b) ==
    a.count > b.count \/ (a.count = b.count /\ a.f < b.f)

RECURSIVE insert_by_count(_, _)
insert_by_count(sorted, x) ==
    IF sorted = <<>> THEN <<x>>
    ELSE IF kasiski_key_less(x, sorted[Len(sorted)])
         THEN Append(insert_by_count(SubSeq(sorted, 1, Len(sorted) - 1), x),
                     sorted[Len(sorted)])
         ELSE Append(sorted, x)

RECURSIVE kasiski_sorted_candidates(_)
kasiski_sorted_candidates(items) ==
    IF items = <<>> THEN <<>>
    ELSE insert_by_count(
             kasiski_sorted_candidates(SubSeq(items, 1, Len(items) - 1)),
             items[Len(items)])

NoKasiskiOut == [status |-> "", ciphertext |-> <<>>, repeated |-> <<>>,
                 all_spacings |-> <<>>, counts |-> <<>>,
                 sorted_candidates |-> <<>>]

kasiski_analysis(ciphertext) ==
    LET repeated == find_repeated_substrings(ciphertext, MIN_LEN, MAX_LEN)
        all_spacings == collect_all_spacings(repeated)
        counts == factor_score(all_spacings, MIN_KEY_LEN, MAX_KEY_LEN)
        loaded == [NoKasiskiOut EXCEPT !.ciphertext = ciphertext]
    IN  IF repeated = <<>>
        THEN [loaded EXCEPT !.status = "no repeated substrings"]
        ELSE IF all_spacings = <<>>
        THEN [loaded EXCEPT !.status = "no spacings", !.repeated = repeated]
        ELSE [loaded EXCEPT
                 !.status = "ranked", !.repeated = repeated,
                 !.all_spacings = all_spacings, !.counts = counts,
                 !.sorted_candidates = kasiski_sorted_candidates(counts)]

kasiski_main(has_file, raw) ==
    LET loaded == load_ciphertext(has_file, raw)
    IN  IF loaded.err # "" THEN [NoKasiskiOut EXCEPT !.status = loaded.err]
        ELSE kasiski_analysis(loaded.val)

InitFind ==
    /\ script = "find_repeated_substrings"
    /\ pc = "start"
    /\ inp \in [ciphertext : SeqsOver(TwoLetters, 0, MaxTextLen - 1),
                min_len : 0..MaxRange,
                max_len : 0..MaxTextLen]
    /\ out = [repeated |-> <<>>]

ApplyFind ==
    /\ script = "find_repeated_substrings"
    /\ pc = "start"
    /\ pc' = "done"
    /\ out' = [repeated |->
                  find_repeated_substrings(inp.ciphertext, inp.min_len, inp.max_len)]
    /\ UNCHANGED <<script, inp>>

SpacingValues == <<-6, 0, 4, 6, 12, 18>>

InitFactor ==
    /\ script = "factor_score"
    /\ pc = "start"
    /\ inp \in [spacings : SeqsOver(SpacingValues, 0, MaxSpacings),
                min_key_len : 1..MaxRange,
                max_key_len : 0..(2 * MaxRange + 1)]
    /\ out = [counts |-> <<>>]

ApplyFactor ==
    /\ script = "factor_score"
    /\ pc = "start"
    /\ pc' = "done"
    /\ out' = [counts |->
                  factor_score(inp.spacings, inp.min_key_len, inp.max_key_len)]
    /\ UNCHANGED <<script, inp>>

InitKasiski ==
    /\ script = "kasiski_main"
    /\ pc = "start"
    /\ inp \in [has_file : BOOLEAN,
                raw : SeqsOver(TwoLetters, 1, MaxTextLen) \cup {BadRaw}]
    /\ out = NoKasiskiOut

RunKasiski ==
    /\ script = "kasiski_main"
    /\ pc = "start"
    /\ pc' = "done"
    /\ out' = kasiski_main(inp.has_file, inp.raw)
    /\ UNCHANGED <<script, inp>>

InitKeyLength == InitIC \/ InitIOC \/ InitFind \/ InitFactor \/ InitKasiski

NextKeyLength == ApplyIC \/ RunIOC \/ ApplyFind \/ ApplyFactor \/ RunKasiski

SpecKeyLength == InitKeyLength /\ [][NextKeyLength]_vars

(***************************************************************************)
(* guess_key_letters.py.  A chi-squared score is [inf, v]: float("inf"),   *)
(* or the fixed-point integer v in units of 1/FREQ_SCALE, each term of the *)
(* sum truncated to that unit.                                             *)
(***************************************************************************)
MaxGuessLen == 4

FREQ_SCALE == 100000

\* EN_FREQ[i] * FREQ_SCALE
EN_FREQ ==
    << 8167, 1492, 2782, 4253, 12702, 2228, 2015,
       6094, 6966, 153, 772, 4025, 2406, 6749,
       7507, 1929, 95, 5987, 6327, 9056, 2758,
       978, 2360, 150, 1974, 74 >>

text_to_nums(text) == [i \in 1..Len(text) |-> text[i] - ord_A]

nums_to_text(nums) == [i \in 1..Len(nums) |-> nums[i] + ord_A]

RECURSIVE guess_split_loop(_, _, _, _)
guess_split_loop(groups, nums, i, key_len) ==
    IF i >= Len(nums) THEN groups
    ELSE guess_split_loop(
             [groups EXCEPT ![(i % key_len) + 1] = Append(@, nums[i + 1])],
             nums, i + 1, key_len)

\* called with key_len >= 1 only
guess_split_by_key_length(ciphertext, key_len) ==
    guess_split_loop([j \in 1..key_len |-> <<>>], text_to_nums(ciphertext),
                     0, key_len)

\* faulty variant: the shift is added instead of subtracted
caesar_decrypt_nums_added(group_nums, shift) ==
    [i \in 1..Len(group_nums) |-> (group_nums[i] + shift) % 26]

caesar_decrypt_nums(group_nums, shift) ==
    [i \in 1..Len(group_nums) |-> (group_nums[i] - shift) % 26]

\* floor(r * r / m) for 0 <= r < m, without leaving 32 bits
sq_div_small(r, m) ==
    LET h == r \div 2
        b == r % 2
    IN  4 * ((h * h) \div m) + (4 * ((h * h) % m) + 4 * h * b + b) \div m

\* floor(d * d / m) for d >= 0, m > 0, without leaving 32 bits
sq_div(d, m) ==
    LET q == d \div m
        r == d % m
    IN  q * d + q * r + sq_div_small(r, m)

int_abs(x) == IF x < 0 THEN -x ELSE x

\* (observed - expected) ** 2 / expected with expected = EN_FREQ[i] * N,
\* in units of 1/FREQ_SCALE
chi_term(observed, freq, N) ==
    IF freq * N > 0
    THEN sq_div(int_abs(FREQ_SCALE * observed - freq * N), freq * N)
    ELSE 0

RECURSIVE chi_loop(_, _, _)
chi_loop(plain_nums, i, score) ==
    IF i >= 26 THEN score
    ELSE chi_loop(plain_nums, i + 1,
             score + chi_term(
                 Cardinality({x \in 1..Len(plain_nums) : plain_nums[x] = i}),
                 EN_FREQ[i + 1], Len(plain_nums)))

chi_squared_score(plain_nums) ==
    IF Len(plain_nums) = 0 THEN [inf |-> TRUE, v |-> 0]
    ELSE [inf |-> FALSE, v |-> chi_loop(plain_nums, 0, 0)]

score_less(a, b) == ~a.inf /\ (b.inf \/ a.v < b.v)

\* scored.sort(key=lambda x: x[1]) is stable
RECURSIVE insert_by_chi(_, _)
insert_by_chi(sorted, x) ==
    IF sorted = <<>> THEN <<x>>
    ELSE IF score_less(x.score, sorted[Len(sorted)].score)
         THEN Append(insert_by_chi(SubSeq(sorted, 1, Len(sorted) - 1), x),
                     sorted[Len(sorted)])
         ELSE Append(sorted, x)

RECURSIVE sort_by_chi(_)
sort_by_chi(scored) ==
    IF scored = <<>> THEN <<>>
    ELSE insert_by_chi(sort_by_chi(SubSeq(scored, 1, Len(scored) - 1)),
                       scored[Len(scored)])

best_shifts_for_group(group_nums, top_n) ==
    LET scored == [x \in 1..26 |->
                      [shift |-> x - 1,
                       score |-> chi_squared_score(
                                     caesar_decrypt_nums(group_nums, x - 1))]]
    IN  SubSeq(sort_by_chi(scored), 1, int_min(top_n, 26))

TOP_N == 3

NoGuessOut == [err |-> "", ciphertext |-> <<>>, tops |-> <<>>,
               key_guess |-> <<>>]

guess_recover(ciphertext, key_len) ==
    IF key_len < 1
    THEN [NoGuessOut EXCEPT !.err = "ValueError", !.ciphertext = ciphertext]
    ELSE LET groups == guess_split_by_key_length(ciphertext, key_len)
             tops == [j \in 1..Len(groups) |->
                         best_shifts_for_group(groups[j], TOP_N)]
         IN  [err |-> "", ciphertext |-> ciphertext, tops |-> tops,
              key_guess |-> nums_to_text([j \in 1..Len(groups) |->
                                            tops[j][1].shift])]

guess_main(raw, key_len) ==
    LET loaded == load_ciphertext_file(raw)
    IN  IF loaded.err # "" THEN [NoGuessOut EXCEPT !.err = loaded.err]
        ELSE guess_recover(loaded.val, key_len)

\* 'A', 'e', 'X'
GuessLetters == <<65, 101, 88>>

InitGuess ==
    /\ script = "guess_key_letters"
    /\ pc = "start"
    /\ inp \in [raw : SeqsOver(GuessLetters, 1, MaxGuessLen) \cup {BadRaw},
                key_len : (-1)..(MaxGuessLen + 1)]
    /\ out = NoGuessOut

RunGuess ==
    /\ script = "guess_key_letters"
    /\ pc = "start"
    /\ pc' = "done"
    /\ out' = guess_main(inp.raw, inp.key_len)
    /\ UNCHANGED <<script, inp>>

SpecGuess == InitGuess /\ [][RunGuess]_vars

(***************************************************************************)
(* C4.  indexOfCoincidence returns 0.0 for every sequence of length <= 1;  *)
(* for length N >= 2 it returns sum_i n_i*(n_i-1) / (N*(N-1)), the share   *)
(* of ordered pairs of distinct positions holding the same letter, which   *)
(* lies in [0, 1] and is exactly 1.0 for one letter repeated.              *)
(***************************************************************************)
CoincidentPairs(text) ==
    {p \in (1..Len(text)) \X (1..Len(text)) :
        p[1] # p[2] /\ text[p[1]] = text[p[2]]}

C4_IndexOfCoincidence ==
    (script = "index_of_coincidence" /\ pc = "done") =>
        LET N == Len(inp.text)
        IN  /\ out.ic.den > 0
            /\ N <= 1 => out.ic.num = 0
            /\ N >= 2 =>
                   /\ out.ic.num = Cardinality(CoincidentPairs(inp.text))
                   /\ out.ic.den = N * (N - 1)
                   /\ 0 <= out.ic.num /\ out.ic.num <= out.ic.den
                   /\ (\A i \in 1..N : inp.text[i] = inp.text[1])
                          => out.ic.num = out.ic.den

\* "AABA": three A's give 3*2 of the 4*3 ordered pairs
C4_Witness ==
    /\ script = "index_of_coincidence" /\ pc = "done"
    /\ inp.text = <<65, 65, 66, 65>>
    /\ out.ic = [num |-> 6, den |-> 12]

(***************************************************************************)
(* C5.  findRepeatedSubstrings returns exactly the substrings of length L  *)
(* in [minLen, min(maxLen, N)] that start at two or more offsets; every    *)
(* entry lists every start offset of its substring (overlapping ones       *)
(* included) once, in ascending order, and nothing else.                   *)
(***************************************************************************)
StartOffsets(text, sub) ==
    {p \in 0..(Len(text) - Len(sub)) :
        \A j \in 1..Len(sub) : text[p + j] = sub[j]}

RepeatedSubstrings(text, lo, hi) ==
    {sub \in UNION {{SubSeq(text, p + 1, p + L) : p \in 0..(Len(text) - L)}
                       : L \in lo..hi} :
        Cardinality(StartOffsets(text, sub)) >= 2}

C5_RepeatedSubstrings ==
    (script = "find_repeated_substrings" /\ pc = "done") =>
        LET text == inp.ciphertext
            rep == out.repeated
        IN  /\ {rep[x].sub : x \in 1..Len(rep)}
                   = RepeatedSubstrings(text, inp.min_len,
                                        int_min(inp.max_len, Len(text)))
            /\ \A x, y \in 1..Len(rep) : rep[x].sub = rep[y].sub => x = y
            /\ \A x \in 1..Len(rep) :
                   /\ Len(rep[x].pos) >= 2
                   /\ \A i \in 1..(Len(rep[x].pos) - 1) :
                          rep[x].pos[i] < rep[x].pos[i + 1]
                   /\ {rep[x].pos[i] : i \in 1..Len(rep[x].pos)}
                          = StartOffsets(text, rep[x].sub)

\* "AAAbA": "AA" occurs at the overlapping offsets 0 and 1, "A" at 0, 1, 2, 4
C5_Witness ==
    /\ script = "find_repeated_substrings" /\ pc = "done"
    /\ inp.ciphertext = <<65, 65, 65, 98, 65>>
    /\ inp.min_len = 1 /\ inp.max_len = 3
    /\ out.repeated = << [sub |-> <<65>>, pos |-> <<0, 1, 2, 4>>],
                         [sub |-> <<65, 65>>, pos |-> <<0, 1>>] >>

(***************************************************************************)
(* C6.  factorScore maps every candidate f of [minKeyLen, maxKeyLen] to    *)
(* the number of spacings d > 0 with d mod f = 0; when every spacing is a  *)
(* positive multiple of 6, the candidates 1, 2, 3 and 6 get len(spacings)  *)
(* and every other candidate at most that.                                 *)
(***************************************************************************)
MultiplesOf(spacings, f) ==
    {i \in 1..Len(spacings) : spacings[i] > 0 /\ spacings[i] % f = 0}

C6_FactorScore ==
    (script = "factor_score" /\ pc = "done") =>
        LET counts == out.counts
            sp == inp.spacings
        IN  /\ \A f \in inp.min_key_len..inp.max_key_len :
                   Cardinality({x \in 1..Len(counts) : counts[x].f = f}) = 1
            /\ \A x \in 1..Len(counts) :
                   /\ counts[x].f \in inp.min_key_len..inp.max_key_len
                   /\ counts[x].count
                          = Cardinality(MultiplesOf(sp, counts[x].f))
            /\ (\A i \in 1..Len(sp) : sp[i] > 0 /\ sp[i] % 6 = 0) =>
                   \A x \in 1..Len(counts) :
                       /\ counts[x].f \in {1, 2, 3, 6}
                              => counts[x].count = Len(sp)
                       /\ counts[x].count <= Len(sp)

\* spacings 6, 12, 18 over candidates 1..7
C6_Witness ==
    /\ script = "factor_score" /\ pc = "done"
    /\ inp.spacings = <<6, 12, 18>>
    /\ inp.min_key_len = 1 /\ inp.max_key_len = 7
    /\ out.counts = << [f |-> 1, count |-> 3], [f |-> 2, count |-> 3],
                       [f |-> 3, count |-> 3], [f |-> 4, count |-> 1],
                       [f |-> 5, count |-> 0], [f |-> 6, count |-> 3],
                       [f |-> 7, count |-> 0] >>

(***************************************************************************)
(* C7.  The ranked candidate list of either scorer (average IC in IOC.py,  *)
(* factor count in kasisiki.py) holds every key length of the range        *)
(* exactly once, in descending score order, equal scores in ascending key  *)
(* length order.                                                           *)
(***************************************************************************)
IOC_ranked(cands, results, lo, hi) ==
    /\ Len(cands) = hi - lo + 1
    /\ \A f \in lo..hi : \E x \in 1..Len(cands) : cands[x].k = f
    /\ \A x \in 1..Len(cands) : \E y \in 1..Len(results) : cands[x] = results[y]
    /\ \A x, y \in 1..Len(cands) :
           x < y => \/ rat_less(cands[y].score, cands[x].score)
                    \/ /\ rat_eq(cands[x].score, cands[y].score)
                       /\ cands[x].k < cands[y].k

kasiski_ranked(cands, counts, lo, hi) ==
    /\ Len(cands) = hi - lo + 1
    /\ \A f \in lo..hi : \E x \in 1..Len(cands) : cands[x].f = f
    /\ \A x \in 1..Len(cands) : \E y \in 1..Len(counts) : cands[x] = counts[y]
    /\ \A x, y \in 1..Len(cands) :
           x < y => \/ cands[x].count > cands[y].count
                    \/ /\ cands[x].count = cands[y].count
                       /\ cands[x].f < cands[y].f

C7_RankedCandidates ==
    /\ (script = "IOC_main" /\ pc = "done" /\ out.err = "" /\ out.analyzed) =>
           IOC_ranked(out.sorted_candidates, out.results,
                      inp.min_len, inp.max_len)
    /\ (script = "kasiski_main" /\ pc = "done" /\ out.status = "ranked") =>
           kasiski_ranked(out.sorted_candidates, out.counts,
                          MIN_KEY_LEN, MAX_KEY_LEN)

\* "ABABAB" over 1..4: lengths 2 and 4 tie at 1.0, then 1 (0.4), then 3 (0.0)
C7_Witness ==
    /\ script = "IOC_main" /\ pc = "done"
    /\ inp.raw = <<65, 98, 65, 98, 65, 98>>
    /\ out.ciphertext = <<65, 66, 65, 66, 65, 66>>
    /\ inp.min_len = 1 /\ inp.max_len = 4
    /\ [x \in 1..Len(out.sorted_candidates) |-> out.sorted_candidates[x].k]
           = <<2, 4, 1, 3>>
    /\ rat_eq(out.sorted_candidates[1].score, out.sorted_candidates[2].score)

(***************************************************************************)
(* C9.  Ranking key lengths by IC with minLen < 1 or maxLen < minLen fails *)
(* with the invalid-range error, produces no candidate list and computes   *)
(* no score (the ciphertext is never split into 0 groups).                 *)
(***************************************************************************)
C9_InvalidRange ==
    (script = "IOC_main" /\ pc = "done" /\ out.ciphertext # <<>>
        /\ inp.parse_ok
        /\ (inp.min_len < 1 \/ inp.max_len < inp.min_len)) =>
        /\ out.err = "Invalid range."
        /\ ~out.analyzed
        /\ out.results = <<>>
        /\ out.sorted_candidates = <<>>

C9_Witness ==
    /\ script = "IOC_main" /\ pc = "done" /\ inp.parse_ok
    /\ out.ciphertext = <<65, 66, 65>>
    /\ inp.min_len = 0 /\ inp.max_len = 2
    /\ out.err = "Invalid range."
    /\ ~out.analyzed

(***************************************************************************)
(* C8.  recoverKey with key length k >= 1 returns k letters; the letter at *)
(* position j is the shift of minimal chi-squared for group j (letters at  *)
(* indices i with i mod k = j, decrypted by (c - s) mod 26), the lowest    *)
(* shift winning ties, and the alternatives of position j are the topN     *)
(* shifts in ascending chi-squared order, that best shift first.           *)
(***************************************************************************)
GroupOf(ciphertext, k, j) ==
    [x \in 1..Cardinality({i \in 0..(Len(ciphertext) - 1) : i % k = j}) |->
        ciphertext[j + (x - 1) * k + 1] - 65]

ShiftScores(group) ==
    [s \in 0..25 |->
        chi_squared_score([x \in 1..Len(group) |-> (group[x] + 26 - s) % 26])]

\* candidate a ranks before candidate b
RanksBefore(a, b) ==
    \/ score_less(a.score, b.score)
    \/ (a.score = b.score /\ a.shift < b.shift)

C8_RecoverKey ==
    (script = "guess_key_letters" /\ pc = "done" /\ out.ciphertext # <<>>
        /\ inp.key_len >= 1) =>
        /\ out.err = ""
        /\ Len(out.key_guess) = inp.key_len
        /\ Len(out.tops) = inp.key_len
        /\ \A j \in 0..(inp.key_len - 1) :
               LET chi == ShiftScores(GroupOf(out.ciphertext, inp.key_len, j))
                   top == out.tops[j + 1]
                   cand(s) == [shift |-> s, score |-> chi[s]]
               IN  /\ Len(top) = TOP_N
                   /\ out.key_guess[j + 1] = 65 + top[1].shift
                   /\ \A x \in 1..Len(top) :
                          top[x].shift \in 0..25 /\ top[x] = cand(top[x].shift)
                   /\ \A x \in 1..(Len(top) - 1) : RanksBefore(top[x], top[x + 1])
                   /\ \A s \in 0..25 :
                          \/ \E x \in 1..Len(top) : top[x].shift = s
                          \/ RanksBefore(top[Len(top)], cand(s))

\* "EXEE" with key length 2: groups "EE" and "XE", key guess "AE"
C8_Witness ==
    /\ script = "guess_key_letters" /\ pc = "done"
    /\ inp.raw = <<101, 88, 101, 101>> /\ inp.key_len = 2
    /\ out.ciphertext = <<69, 88, 69, 69>>
    /\ out.key_guess = <<65, 69>>
    /\ [x \in 1..3 |-> out.tops[1][x].shift] = <<0, 11, 4>>
    /\ [x \in 1..3 |-> out.tops[2][x].shift] = <<4, 23, 16>>

(***************************************************************************)
(* C10.  In key recovery an empty group scores +infinity for every shift   *)
(* and is never selected as best: no key letter of the recovered key is    *)
(* taken from a candidate whose chi-squared score is +infinity.            *)
(***************************************************************************)
C10_NoInfiniteBest ==
    (script = "guess_key_letters" /\ pc = "done" /\ out.err = "") =>
        \A j \in 1..Len(out.tops) :
            /\ GroupOf(out.ciphertext, inp.key_len, j - 1) = <<>>
                   => \A x \in 1..Len(out.tops[j]) : out.tops[j][x].score.inf
            /\ ~out.tops[j][1].score.inf

====
